---- MODULE Spec2Model ----
(***************************************************************************)
(* Object placement and scene composition of the robosuite repository:     *)
(*   - UniformRandomPegsSampler and PegsTask (MujocoManip/models/          *)
(*     pegs_task.py): the rejection sampler, the scene merge and the       *)
(*     placement driver;                                                   *)
(*   - SawyerAssembly._get_placement_initializer_for_eval_mode             *)
(*     (robosuite/environments/sawyer_assembly.py): the round-robin        *)
(*     evaluation schedule.                                                *)
(*                                                                         *)
(* Lengths are integers in millimetres (0.001 of the source's unit), so    *)
(* 0.021 is 21 and 0.01 is 10.  Distances are compared by their squares.   *)
(***************************************************************************)
EXTENDS Integers, Sequences, FiniteSets, TLC

VARIABLES
    inp,                    \* the constructor arguments (arena, robot, objects, initializer config)
    pc,                     \* position of the caller: new / arena / robot / merging / merged / ready / sampling / failed
    err,                    \* the exception that ended construction, or None
    worldbody,              \* names of the children of the merged world body, in order
    asset,                  \* asset identifiers of the merged scene, in order
    objects,                \* self.objects: the composed object nodes
    n_objects,              \* self.n_objects
    max_horizontal_radius,  \* self.max_horizontal_radius
    mujoco_objects,         \* self.mujoco_objects: the ordered mapping, a sequence of <<name, descriptor>>
    arena, robot,           \* self.arena, self.robot
    shelf_offset, shelf_size,
    merge_idx,              \* position of the loop of merge_objects
    initializer,            \* the sampler after setup(): configuration, descriptors, table offset and size
    calls,                  \* number of place_objects() invocations so far
    samples,                \* ghost: number of sample() calls made by place_objects
    obj_idx,                \* sample(): position of the loop over self.mujoco_objects
    attempt,                \* sample(): i, candidates already drawn for the current object
    placed_objects,         \* sample(): list of (pos, horizontal_radius)
    pos_arr, quat_arr,      \* sample(): the output lists being built
    placed_for,             \* ghost: the descriptor id each entry of pos_arr was drawn for
    cand,                   \* ghost: the last values drawn by sample_x / sample_y / sample_z, and for which radius
    ret,                    \* outcome of the last sample() call
    ev_cfg,                 \* SawyerAssembly: the grid bounds and perturb_evals
    ev_pc,                  \* position in _get_placement_initializer_for_eval_mode: start / loop / failed
    ev_err,                 \* the exception that ended it, or None
    placement_initializer,  \* self.placement_initializer
    builds,                 \* the locals of two builds of the schedule from ev_cfg, run side by side
    ev_t                    \* t, the loop variable of line 209

sceneVars == <<worldbody, asset, objects, n_objects, max_horizontal_radius>>
taskVars == <<mujoco_objects, arena, robot, shelf_offset, shelf_size, merge_idx, initializer>>
callVars == <<calls, samples, obj_idx, attempt, placed_objects, pos_arr, quat_arr, placed_for, cand, ret>>
evalVars == <<ev_cfg, ev_pc, ev_err, placement_initializer, builds, ev_t>>
vars == <<inp, pc, err, sceneVars, taskVars, callVars, evalVars>>

\* no exception
None == "None"

-----------------------------------------------------------------------------
(* Bounds of the model *)

\* largest number of objects in the mapping handed to PegsTask
MaxObjects == 2
\* stands for the 5000 of "for i in range(5000)" (pegs_task.py line 90), scaled down
RetryBound == 2
\* number of place_objects() invocations explored
MaxCalls == 2

-----------------------------------------------------------------------------
(* Vectors *)

VecAdd(a, b) == <<a[1] + b[1], a[2] + b[2], a[3] + b[3]>>
VecSub(a, b) == <<a[1] - b[1], a[2] - b[2], a[3] - b[3]>>
Abs(n) == IF n < 0 THEN -n ELSE n
Min2(a, b) == IF a <= b THEN a ELSE b
Max2(a, b) == IF a >= b THEN a ELSE b
\* squares of the 3-d and of the horizontal Euclidean norm
NormSq(v) == v[1] * v[1] + v[2] * v[2] + v[3] * v[3]
HorizNormSq(v) == v[1] * v[1] + v[2] * v[2]

-----------------------------------------------------------------------------
(* Inputs *)

ObjNames == <<"block1", "block2", "block3", "block4">>

\* the object mapping of the first n catalogue entries under an object set:
\* a sequence of <<name, descriptor>>, in insertion order
Descriptor(os, k) ==
    [id |-> k, horizontal_radius |-> os.radii[k], bottom_offset |-> <<0, 0, os.bottoms[k]>>,
     assets |-> os.assets[k]]
ObjectMapping(os, n) == [k \in 1..n |-> <<ObjNames[k], Descriptor(os, k)>>]

UniqueAssets == <<<<"mesh-1">>, <<"mesh-2">>, <<"mesh-3">>, <<"mesh-4">>>>
\* objects of one radius
EqualObjects == [radii |-> <<10, 10, 10, 10>>, bottoms |-> <<-5, -5, -5, -5>>, assets |-> UniqueAssets]
\* objects of two radii and two bottom offsets
MixedObjects == [radii |-> <<10, 6, 10, 6>>, bottoms |-> <<-5, -3, -5, -3>>, assets |-> UniqueAssets]
\* the second object reuses the first object's asset
TwinObjects == [EqualObjects EXCEPT !.assets = <<<<"mesh-1">>, <<"mesh-1">>, <<"mesh-3">>, <<"mesh-4">>>>]
\* the first object reuses an asset of the arena
TableObjects == [EqualObjects EXCEPT !.assets = <<<<"tex-table">>, <<"mesh-2">>, <<"mesh-3">>, <<"mesh-4">>>>]

Arenas == {
    [bodies |-> <<"table">>, assets |-> <<"tex-table">>, table_top_abs |-> <<0, 0, 100>>,
     full_size |-> <<20, 40, 5>>] }

Robots == {
    [bodies |-> <<"base">>, assets |-> <<"mesh-robot">>],
    \* a robot that reuses an asset of the arena
    [bodies |-> <<"base">>, assets |-> <<"tex-table">>] }

\* an argument left at None, an attribute not yet set
Unset == <<>>

\* UniformRandomPegsSampler.__init__ : the arguments are stored as given
UniformRandomPegsSampler(x_range, y_range, z_range, ensure, z_rotation) ==
    [x_range |-> x_range, y_range |-> y_range, z_range |-> z_range,
     ensure_object_boundary_in_range |-> ensure, z_rotation |-> z_rotation]

\* tight region: two objects of radius 10 fit only at opposite corners
TightSampler == UniformRandomPegsSampler(<<-20, 10>>, <<-10, 10>>, <<0, 38>>, TRUE, FALSE)
\* roomy region, one height
RoomySampler == UniformRandomPegsSampler(<<-35, 35>>, <<-10, 10>>, <<0, 20>>, TRUE, FALSE)
\* one place, heights further apart than the threshold
StackSampler == UniformRandomPegsSampler(<<-10, 10>>, <<-10, 10>>, <<0, 50>>, TRUE, FALSE)
\* x range narrower than twice the radius
NarrowSampler == UniformRandomPegsSampler(<<-5, 5>>, <<-10, 10>>, <<0, 20>>, TRUE, FALSE)
\* no shrinking, x range given as (max, min), random z-rotation
PlainSampler == UniformRandomPegsSampler(<<25, -25>>, <<0, 0>>, <<0, 0>>, FALSE, TRUE)

\* initializer argument of PegsTask: None or a sampler
Initializers ==
    {Unset, <<TightSampler>>, <<RoomySampler>>, <<StackSampler>>, <<NarrowSampler>>, <<PlainSampler>>}

\* the object sets explored, each with the initializers it is explored under
Scenarios == {
    [os |-> EqualObjects, initializers |-> Initializers],
    [os |-> MixedObjects, initializers |-> {<<RoomySampler>>}],
    [os |-> TwinObjects, initializers |-> {<<RoomySampler>>}],
    [os |-> TableObjects, initializers |-> {<<RoomySampler>>}] }

Inputs ==
    UNION { { [arena |-> a, robot |-> r, objects |-> ObjectMapping(sc.os, n), initializer |-> i] :
                a \in Arenas, r \in Robots, n \in 1..MaxObjects, i \in sc.initializers } :
            sc \in Scenarios }

-----------------------------------------------------------------------------
(* MujocoXML.merge / merge_asset and ObjectPositionSampler.setup            *)

HasDuplicate(table, ids) == \E i \in 1..Len(ids) : \E j \in 1..Len(table) : table[j] = ids[i]

\* merge(fragment): rejected when an asset identifier already exists, else
\* the fragment's bodies and assets are appended
Merge(bodies, table, frag) ==
    IF HasDuplicate(table, frag.assets)
    THEN [error |-> "DuplicateAssetError", bodies |-> bodies, asset |-> table]
    ELSE [error |-> None, bodies |-> bodies \o frag.bodies, asset |-> table \o frag.assets]

\* merge_asset(fragment): the same for the assets alone
MergeAsset(table, frag) ==
    IF HasDuplicate(table, frag.assets)
    THEN [error |-> "DuplicateAssetError", asset |-> table]
    ELSE [error |-> None, asset |-> table \o frag.assets]

\* setup(mujoco_objects, table_top_offset, table_size) stores its arguments on the sampler
Setup(cfg, mjcfs, offset, size) ==
    [cfg |-> cfg, mujoco_objects |-> mjcfs, table_top_offset |-> offset, table_size |-> size]

\* array_to_string renders a numeric array as the text of an XML attribute
ArrayToString(a) == [str |-> a]

\* get_collision(name, site=True): a fresh body element carrying the object's name
GetCollision(name) == [name |-> name, joints |-> <<>>, pos |-> [str |-> <<>>], quat |-> [str |-> <<>>]]

-----------------------------------------------------------------------------
(* UniformRandomPegsSampler *)

NearCoplanarThreshold == 21
ZShrink == 10
DefaultZMax == 1000

\* the interval handed to np.random.uniform by sample_x: <<low, high>>
SampleXRange(s, object_horizontal_radius) ==
    LET x_range == IF s.cfg.x_range = Unset
                   THEN <<(-s.table_size[1]) \div 2, s.table_size[1] \div 2>>
                   ELSE s.cfg.x_range
        minimum == Min2(x_range[1], x_range[2])
        maximum == Max2(x_range[1], x_range[2])
    IN  IF s.cfg.ensure_object_boundary_in_range
        THEN <<minimum + object_horizontal_radius, maximum - object_horizontal_radius>>
        ELSE <<minimum, maximum>>

\* the same for sample_y; the default range is read from table_size[0]
SampleYRange(s, object_horizontal_radius) ==
    LET y_range == IF s.cfg.y_range = Unset
                   THEN <<(-s.table_size[1]) \div 2, s.table_size[1] \div 2>>
                   ELSE s.cfg.y_range
        minimum == Min2(y_range[1], y_range[2])
        maximum == Max2(y_range[1], y_range[2])
    IN  IF s.cfg.ensure_object_boundary_in_range
        THEN <<minimum + object_horizontal_radius, maximum - object_horizontal_radius>>
        ELSE <<minimum, maximum>>

\* the same for sample_z; the default range is [0, 1]
SampleZRange(s, object_horizontal_radius) ==
    LET z_range == IF s.cfg.z_range = Unset THEN <<0, DefaultZMax>> ELSE s.cfg.z_range
        minimum == Min2(z_range[1], z_range[2])
        maximum == Max2(z_range[1], z_range[2])
    IN  IF s.cfg.ensure_object_boundary_in_range
        THEN <<minimum + object_horizontal_radius, maximum - object_horizontal_radius>>
        ELSE <<minimum, maximum>>

\* np.random.uniform(low, high) computes low + (high - low) * u with u in [0, 1):
\* the values explored are the two ends and the middle of the interval.  With
\* low > high numpy documents the result as undefined: today's builds draw from
\* the interval between high and low, a later one may raise (UniformDefined).
Uniform(rng) ==
    LET low == rng[1]
        high == rng[2]
    IN  {low, (low + high) \div 2, high}
UniformDefined(rng) == rng[1] <= rng[2]

\* sample_quat: the angles explored are 0 and pi, whose half-angle cosine and
\* sine are integers
HalfAngleCos(angle) == IF angle = 0 THEN 1 ELSE 0
HalfAngleSin(angle) == IF angle = 0 THEN 0 ELSE 1
SampleQuat(s) ==
    IF s.cfg.z_rotation
    THEN {<<HalfAngleCos(rot_angle), 0, 0, HalfAngleSin(rot_angle)>> : rot_angle \in {0, 180}}
    ELSE {<<1, 0, 0, 0>>}

\* an overlap test that looks at the horizontal distance alone, at any height
LocationValidFlat(pos, horizontal_radius, placed) ==
    \A n \in 1..Len(placed) :
        LET pos2 == placed[n][1]
            r == placed[n][2]
        IN  HorizNormSq(VecSub(pos, pos2)) > (r + horizontal_radius) * (r + horizontal_radius)

\* lines 95-101 of sample(): the candidate is valid unless some placed object
\* is within the sum of the radii and within the vertical threshold
LocationValid(pos, horizontal_radius, placed) ==
    \A n \in 1..Len(placed) :
        LET pos2 == placed[n][1]
            r == placed[n][2]
        IN  ~ ( /\ NormSq(VecSub(pos, pos2)) <= (r + horizontal_radius) * (r + horizontal_radius)
                /\ Abs(pos[3] - pos2[3]) < NearCoplanarThreshold )

\* line 96: the candidate position in world coordinates
CandidatePos(s, bottom_offset, x, y, z) ==
    VecAdd(VecSub(s.table_top_offset, bottom_offset), <<x, y, z>>)

-----------------------------------------------------------------------------
(* PegsTask *)

\* the evaluation schedule is not being built
EvalIdle ==
    /\ ev_cfg = Unset
    /\ ev_pc = "idle"
    /\ ev_err = None
    /\ placement_initializer = "UniformRandomSampler"
    /\ builds = <<>>
    /\ ev_t = 0

Init ==
    /\ EvalIdle
    /\ inp \in Inputs
    /\ pc = "new"
    /\ err = None
    /\ worldbody = <<>>
    /\ asset = <<>>
    /\ objects = <<>>
    /\ n_objects = 0
    /\ max_horizontal_radius = 0
    /\ mujoco_objects = <<>>
    /\ arena = Unset
    /\ robot = Unset
    /\ shelf_offset = Unset
    /\ shelf_size = Unset
    /\ merge_idx = 0
    /\ initializer = Unset
    /\ calls = 0
    /\ samples = 0
    /\ obj_idx = 0
    /\ attempt = 0
    /\ placed_objects = <<>>
    /\ pos_arr = <<>>
    /\ quat_arr = <<>>
    /\ placed_for = <<>>
    /\ cand = Unset
    /\ ret = [status |-> "none"]

\* merge_arena, called first by __init__
MergeArena ==
    /\ pc = "new"
    /\ arena' = <<inp.arena>>
    /\ shelf_offset' = inp.arena.table_top_abs
    /\ shelf_size' = inp.arena.full_size
    /\ LET m == Merge(worldbody, asset, inp.arena)
       IN  /\ worldbody' = m.bodies
           /\ asset' = m.asset
           /\ err' = m.error
           /\ pc' = IF m.error = None THEN "arena" ELSE "failed"
    /\ UNCHANGED <<evalVars, inp, objects, n_objects, max_horizontal_radius, mujoco_objects, robot,
                   merge_idx, initializer, callVars>>

\* merge_robot
MergeRobot ==
    /\ pc = "arena"
    /\ robot' = <<inp.robot>>
    /\ LET m == Merge(worldbody, asset, inp.robot)
       IN  /\ worldbody' = m.bodies
           /\ asset' = m.asset
           /\ err' = m.error
           /\ pc' = IF m.error = None THEN "robot" ELSE "failed"
    /\ UNCHANGED <<evalVars, inp, objects, n_objects, max_horizontal_radius, mujoco_objects, arena,
                   shelf_offset, shelf_size, merge_idx, initializer, callVars>>

\* merge_objects, up to its loop
MergeObjectsBegin ==
    /\ pc = "robot"
    /\ n_objects' = Len(inp.objects)
    /\ mujoco_objects' = inp.objects
    /\ objects' = <<>>
    /\ max_horizontal_radius' = 0
    /\ merge_idx' = 1
    /\ pc' = "merging"
    /\ UNCHANGED <<evalVars, inp, err, worldbody, asset, arena, robot, shelf_offset, shelf_size,
                   initializer, callVars>>

\* a turn of the loop that appends the node before it merges the assets
MergeObjectsStepNodeFirst ==
    /\ pc = "merging"
    /\ merge_idx <= Len(mujoco_objects)
    /\ LET obj_name == mujoco_objects[merge_idx][1]
           obj_mjcf == mujoco_objects[merge_idx][2]
           m == MergeAsset(asset, obj_mjcf)
           obj == [GetCollision(obj_name) EXCEPT
                      !.joints = Append(@, [name |-> obj_name, type |-> "free", damping |-> "0.0005"])]
       IN  IF m.error # None
           THEN /\ err' = m.error
                /\ pc' = "failed"
                /\ objects' = Append(objects, obj)
                /\ worldbody' = Append(worldbody, obj.name)
                /\ UNCHANGED <<asset, n_objects, max_horizontal_radius, merge_idx>>
           ELSE /\ asset' = m.asset
                /\ objects' = Append(objects, obj)
                /\ worldbody' = Append(worldbody, obj.name)
                /\ max_horizontal_radius' = Max2(max_horizontal_radius, obj_mjcf.horizontal_radius)
                /\ merge_idx' = merge_idx + 1
                /\ UNCHANGED <<err, pc, n_objects>>
    /\ UNCHANGED <<evalVars, inp, mujoco_objects, arena, robot, shelf_offset, shelf_size, initializer, callVars>>

\* a turn of the loop that leaves out the joint of line 166
MergeObjectsStepNoJoint ==
    /\ pc = "merging"
    /\ merge_idx <= Len(mujoco_objects)
    /\ LET obj_name == mujoco_objects[merge_idx][1]
           obj_mjcf == mujoco_objects[merge_idx][2]
           m == MergeAsset(asset, obj_mjcf)
           obj == GetCollision(obj_name)
       IN  IF m.error # None
           THEN /\ err' = m.error
                /\ pc' = "failed"
                /\ UNCHANGED <<sceneVars, merge_idx>>
           ELSE /\ asset' = m.asset
                /\ objects' = Append(objects, obj)
                /\ worldbody' = Append(worldbody, obj.name)
                /\ max_horizontal_radius' = Max2(max_horizontal_radius, obj_mjcf.horizontal_radius)
                /\ merge_idx' = merge_idx + 1
                /\ UNCHANGED <<err, pc, n_objects>>
    /\ UNCHANGED <<evalVars, inp, mujoco_objects, arena, robot, shelf_offset, shelf_size, initializer, callVars>>

\* one turn of the loop of merge_objects
MergeObjectsStep ==
    /\ pc = "merging"
    /\ merge_idx <= Len(mujoco_objects)
    /\ LET obj_name == mujoco_objects[merge_idx][1]
           obj_mjcf == mujoco_objects[merge_idx][2]
           m == MergeAsset(asset, obj_mjcf)
           obj == [GetCollision(obj_name) EXCEPT
                      !.joints = Append(@, [name |-> obj_name, type |-> "free", damping |-> "0.0005"])]
       IN  IF m.error # None
           THEN /\ err' = m.error
                /\ pc' = "failed"
                /\ UNCHANGED <<sceneVars, merge_idx>>
           ELSE /\ asset' = m.asset
                /\ objects' = Append(objects, obj)
                /\ worldbody' = Append(worldbody, obj.name)
                /\ max_horizontal_radius' = Max2(max_horizontal_radius, obj_mjcf.horizontal_radius)
                /\ merge_idx' = merge_idx + 1
                /\ UNCHANGED <<err, pc, n_objects>>
    /\ UNCHANGED <<evalVars, inp, mujoco_objects, arena, robot, shelf_offset, shelf_size, initializer, callVars>>

\* the descriptors in the reverse of the mapping's order
MjcfsReversed(mapping) == [k \in 1..Len(mapping) |-> mapping[Len(mapping) + 1 - k][2]]
\* line 140: the descriptors handed to the sampler, in the order of the mapping
Mjcfs(mapping) == [k \in 1..Len(mapping) |-> mapping[k][2]]

\* __init__ after merge_objects: the initializer and its setup
SetupInitializer ==
    /\ pc = "merging"
    /\ merge_idx > Len(mujoco_objects)
    /\ LET chosen == IF inp.initializer = Unset
                     THEN UniformRandomPegsSampler(Unset, Unset, Unset, TRUE, TRUE)
                     ELSE inp.initializer[1]
       IN  initializer' = <<Setup(chosen, Mjcfs(mujoco_objects), shelf_offset, shelf_size)>>
    /\ pc' = "ready"
    /\ UNCHANGED <<evalVars, inp, err, sceneVars, mujoco_objects, arena, robot, shelf_offset, shelf_size,
                   merge_idx, callVars>>

-----------------------------------------------------------------------------
(* place_objects and the sample() call it makes *)

\* a retry loop that runs one turn too many
LoopContinuesOffByOne(i) == i < RetryBound + 1
\* "for i in range(5000)": the loop body runs while i is below the bound
LoopContinues(i) == i < RetryBound

\* a list insertion at the front
ListPrepend(list, item) == <<item>> \o list
\* list.append of lines 104, 109 and 110
ListAppend(list, item) == Append(list, item)

\* lines 188-190 of place_objects: pose i is written onto node i
WritePoses(objs, pa, qa) ==
    [i \in 1..Len(objs) |->
        [objs[i] EXCEPT !.pos = ArrayToString(pa[i]), !.quat = ArrayToString(qa[i])]]

\* place_objects calls self.initializer.sample(); sample() sets up its lists
PlaceObjectsCall ==
    /\ pc = "ready"
    /\ calls < MaxCalls
    /\ calls' = calls + 1
    /\ samples' = samples + 1
    /\ pc' = "sampling"
    /\ obj_idx' = 1
    /\ attempt' = 0
    /\ placed_objects' = <<>>
    /\ pos_arr' = <<>>
    /\ quat_arr' = <<>>
    /\ placed_for' = <<>>
    /\ cand' = Unset
    /\ ret' = [status |-> "running"]
    /\ UNCHANGED <<evalVars, inp, err, sceneVars, taskVars>>

\* the candidate drawn at lines 91-93 and its position (line 96)
Candidate(s, obj_mjcf, i, x, y, z) ==
    [x |-> x, y |-> y, z |-> z, radius |-> obj_mjcf.horizontal_radius, id |-> obj_mjcf.id,
     n |-> i + 1, pos |-> CandidatePos(s, obj_mjcf.bottom_offset, x, y, z)]

\* an accepting turn that writes the pose onto the node as soon as the object is put down
AttemptAcceptWritesEarly ==
    /\ pc = "sampling"
    /\ LoopContinues(attempt)
    /\ LET s == initializer[1]
           obj_mjcf == s.mujoco_objects[obj_idx]
           horizontal_radius == obj_mjcf.horizontal_radius
       IN  \E object_x \in Uniform(SampleXRange(s, horizontal_radius)),
              object_y \in Uniform(SampleYRange(s, horizontal_radius)),
              object_z \in Uniform(SampleZRange(s, ZShrink)),
              quat \in SampleQuat(s) :
             LET c == Candidate(s, obj_mjcf, attempt, object_x, object_y, object_z)
             IN  /\ LocationValid(c.pos, horizontal_radius, placed_objects)
                 /\ cand' = c
                 /\ placed_objects' = ListAppend(placed_objects, <<c.pos, horizontal_radius>>)
                 /\ quat_arr' = ListAppend(quat_arr, quat)
                 /\ pos_arr' = ListAppend(pos_arr, c.pos)
                 /\ placed_for' = ListAppend(placed_for, obj_mjcf.id)
                 /\ IF obj_idx < Len(s.mujoco_objects)
                    THEN /\ obj_idx' = obj_idx + 1
                         /\ attempt' = 0
                         /\ objects' = [objects EXCEPT ![obj_idx].pos = ArrayToString(c.pos),
                                                        ![obj_idx].quat = ArrayToString(quat)]
                         /\ UNCHANGED <<pc, ret>>
                    ELSE /\ ret' = [status |-> "returned", pos_arr |-> pos_arr', quat_arr |-> quat_arr']
                         /\ objects' = WritePoses(objects, pos_arr', quat_arr')
                         /\ pc' = "ready"
                         /\ UNCHANGED <<obj_idx, attempt>>
    /\ UNCHANGED <<evalVars, inp, err, worldbody, asset, n_objects, max_horizontal_radius, taskVars, calls, samples>>

\* one turn of the retry loop whose candidate is valid: the object is put
\* down; after the last object sample() returns and place_objects writes the poses
AttemptAccept ==
    /\ pc = "sampling"
    /\ LoopContinues(attempt)
    /\ LET s == initializer[1]
           obj_mjcf == s.mujoco_objects[obj_idx]
           horizontal_radius == obj_mjcf.horizontal_radius
       IN  \E object_x \in Uniform(SampleXRange(s, horizontal_radius)),
              object_y \in Uniform(SampleYRange(s, horizontal_radius)),
              object_z \in Uniform(SampleZRange(s, ZShrink)),
              quat \in SampleQuat(s) :
             LET c == Candidate(s, obj_mjcf, attempt, object_x, object_y, object_z)
             IN  /\ LocationValid(c.pos, horizontal_radius, placed_objects)
                 /\ cand' = c
                 /\ placed_objects' = ListAppend(placed_objects, <<c.pos, horizontal_radius>>)
                 /\ quat_arr' = ListAppend(quat_arr, quat)
                 /\ pos_arr' = ListAppend(pos_arr, c.pos)
                 /\ placed_for' = ListAppend(placed_for, obj_mjcf.id)
                 /\ IF obj_idx < Len(s.mujoco_objects)
                    THEN /\ obj_idx' = obj_idx + 1
                         /\ attempt' = 0
                         /\ UNCHANGED <<pc, ret, objects>>
                    ELSE /\ ret' = [status |-> "returned", pos_arr |-> pos_arr', quat_arr |-> quat_arr']
                         /\ objects' = WritePoses(objects, pos_arr', quat_arr')
                         /\ pc' = "ready"
                         /\ UNCHANGED <<obj_idx, attempt>>
    /\ UNCHANGED <<evalVars, inp, err, worldbody, asset, n_objects, max_horizontal_radius, taskVars, calls, samples>>

\* one turn of the retry loop whose candidate overlaps a placed object; after
\* the last turn sample() raises RandomizationError out of place_objects
AttemptReject ==
    /\ pc = "sampling"
    /\ LoopContinues(attempt)
    /\ LET s == initializer[1]
           obj_mjcf == s.mujoco_objects[obj_idx]
           horizontal_radius == obj_mjcf.horizontal_radius
       IN  \E object_x \in Uniform(SampleXRange(s, horizontal_radius)),
              object_y \in Uniform(SampleYRange(s, horizontal_radius)),
              object_z \in Uniform(SampleZRange(s, ZShrink)) :
             LET c == Candidate(s, obj_mjcf, attempt, object_x, object_y, object_z)
             IN  /\ ~ LocationValid(c.pos, horizontal_radius, placed_objects)
                 /\ cand' = c
    /\ attempt' = attempt + 1
    /\ IF LoopContinues(attempt + 1)
       THEN UNCHANGED <<pc, ret>>
       ELSE /\ ret' = [status |-> "raised", error |-> "RandomizationError"]
            /\ pc' = "ready"
    /\ UNCHANGED <<evalVars, inp, err, sceneVars, taskVars, calls, samples, obj_idx, placed_objects, pos_arr, quat_arr,
                   placed_for>>

\* np.random.uniform called with low > high: besides drawing from the swapped
\* interval (the two actions above) the call may raise
UniformUndefinedRaise ==
    /\ pc = "sampling"
    /\ LoopContinues(attempt)
    /\ LET s == initializer[1]
           horizontal_radius == s.mujoco_objects[obj_idx].horizontal_radius
       IN  \/ ~ UniformDefined(SampleXRange(s, horizontal_radius))
           \/ ~ UniformDefined(SampleYRange(s, horizontal_radius))
           \/ ~ UniformDefined(SampleZRange(s, ZShrink))
    /\ ret' = [status |-> "raised", error |-> "ValueError"]
    /\ pc' = "ready"
    /\ UNCHANGED <<evalVars, inp, err, sceneVars, taskVars, calls, samples, obj_idx, attempt, placed_objects, pos_arr,
                   quat_arr, placed_for, cand>>

Next ==
    \/ MergeArena
    \/ MergeRobot
    \/ MergeObjectsBegin
    \/ MergeObjectsStep
    \/ SetupInitializer
    \/ PlaceObjectsCall
    \/ AttemptAccept
    \/ AttemptReject
    \/ UniformUndefinedRaise

Spec == Init /\ [][Next]_vars

-----------------------------------------------------------------------------
(* SawyerAssembly._get_placement_initializer_for_eval_mode                  *)
(*                                                                          *)
(* Positions are integers in 1/120 of the source's unit and angles in       *)
(* units of pi/30, so the bounds (-0.3, 0.2) are (-36, 24) and (0, 2 pi)    *)
(* is (0, 60).  Of the arrays final_x_grid, final_y_grid and final_z_grid   *)
(* a build keeps the entry its loop wrote last.                             *)

RepeatFactor == 100

Builds == {1, 2}

\* numbers of grid points per dimension explored; the source has 3 on every axis
GridCounts == {0, 2, 3}

\* _grid_bounds_for_eval_mode: (low, high, number of grid points) per dimension
GridBounds(nx, ny, nz) ==
    [x_bounds |-> <<-36, 24, nx>>, y_bounds |-> <<-36, 24, ny>>, z_rot_bounds |-> <<0, 60, nz>>]

EvalConfigs ==
    { [bounds |-> GridBounds(nx, ny, nz), perturb_evals |-> p] :
        nx \in GridCounts, ny \in GridCounts, nz \in GridCounts, p \in BOOLEAN }

\* range_to_uniform_grid(a, b, n): n evenly spaced points, the centres of n
\* equal bins between a and b
RangeToUniformGrid(a, b, n) == [k \in 1..n |-> a + ((2 * k - 1) * (b - a)) \div (2 * n)]

\* np.meshgrid(x, y, z) under its default indexing followed by ravel():
\* element k (from 0) of the three flat arrays
MeshgridRavel(x, y, z) ==
    LET nx == Len(x)
        ny == Len(y)
        nz == Len(z)
    IN  [x_grid |-> [k \in 1..(nx * ny * nz) |-> x[(((k - 1) \div nz) % nx) + 1]],
         y_grid |-> [k \in 1..(nx * ny * nz) |-> y[((k - 1) \div (nz * nx)) + 1]],
         z_rotation |-> [k \in 1..(nx * ny * nz) |-> z[((k - 1) % nz) + 1]]]

\* a perturbation of the whole grid spacing
PerturbSizeWholeCell(bounds) == (bounds[2] - bounds[1]) \div bounds[3]
\* lines 201-203: half the grid spacing of a dimension
PerturbSize(bounds) == ((bounds[2] - bounds[1]) \div bounds[3]) \div 2

\* a schedule that repeats each grid point before it moves to the next
GIndBlockwise(t, grid_length) == (t \div RepeatFactor) % grid_length
\* line 210
GInd(t, grid_length) == t % grid_length

\* the locals of a build after lines 185-203
BuildLocals(cfg) ==
    LET b == cfg.bounds
        g == MeshgridRavel(RangeToUniformGrid(b.x_bounds[1], b.x_bounds[2], b.x_bounds[3]),
                           RangeToUniformGrid(b.y_bounds[1], b.y_bounds[2], b.y_bounds[3]),
                           RangeToUniformGrid(b.z_rot_bounds[1], b.z_rot_bounds[2], b.z_rot_bounds[3]))
        grid_length == Len(g.x_grid)
    IN  [x_grid |-> g.x_grid, y_grid |-> g.y_grid, z_rotation |-> g.z_rotation,
         grid_length |-> grid_length,
         round_robin_period |-> IF cfg.perturb_evals THEN grid_length * RepeatFactor ELSE grid_length,
         perturb_size |-> IF cfg.perturb_evals
                          THEN <<PerturbSize(b.x_bounds), PerturbSize(b.y_bounds), PerturbSize(b.z_rot_bounds)>>
                          ELSE Unset,
         entry |-> Unset,
         cycle |-> <<>>]

\* the three np.random.uniform(low=-size, high=size) of lines 213-215; the
\* draws explored take the same place of their interval on every axis
PerturbDraws(size) ==
    { <<-size[1], -size[2], -size[3]>>, <<0, 0, 0>>, <<size[1], size[2], size[3]>> }

InitEval ==
    /\ ev_cfg \in EvalConfigs
    /\ ev_pc = "start"
    /\ ev_err = None
    /\ placement_initializer = "UniformRandomSampler"
    /\ builds = <<>>
    /\ ev_t = 0
    /\ inp = Unset
    /\ pc = "idle"
    /\ err = None
    /\ worldbody = <<>>
    /\ asset = <<>>
    /\ objects = <<>>
    /\ n_objects = 0
    /\ max_horizontal_radius = 0
    /\ mujoco_objects = <<>>
    /\ arena = Unset
    /\ robot = Unset
    /\ shelf_offset = Unset
    /\ shelf_size = Unset
    /\ merge_idx = 0
    /\ initializer = Unset
    /\ calls = 0
    /\ samples = 0
    /\ obj_idx = 0
    /\ attempt = 0
    /\ placed_objects = <<>>
    /\ pos_arr = <<>>
    /\ quat_arr = <<>>
    /\ placed_for = <<>>
    /\ cand = Unset
    /\ ret = [status |-> "none"]

mainVars == <<inp, pc, err, sceneVars, taskVars, callVars>>

\* lines 185-208: the grids, the period and the perturbation sizes; with
\* perturb_evals a dimension of 0 grid points divides by zero
EvalBuildGrid ==
    /\ ev_pc = "start"
    /\ LET b == ev_cfg.bounds
       IN  IF ev_cfg.perturb_evals /\ (b.x_bounds[3] = 0 \/ b.y_bounds[3] = 0 \/ b.z_rot_bounds[3] = 0)
           THEN /\ ev_err' = "ZeroDivisionError"
                /\ ev_pc' = "failed"
                /\ UNCHANGED builds
           ELSE /\ builds' = [n \in Builds |-> BuildLocals(ev_cfg)]
                /\ ev_pc' = "loop"
                /\ UNCHANGED ev_err
    /\ ev_t' = 0
    /\ UNCHANGED <<mainVars, ev_cfg, placement_initializer>>

\* the entry a build writes at index t with perturbation d
ScheduleEntry(bl, t, d) ==
    LET g_ind == GInd(t, bl.grid_length)
        base == <<bl.x_grid[g_ind + 1], bl.y_grid[g_ind + 1], bl.z_rotation[g_ind + 1]>>
    IN  [t |-> t, g_ind |-> g_ind, base |-> base, final |-> VecAdd(base, d),
         \* ghost: the grid point of index t - grid_length, or Unset
         prev_cycle |-> IF Len(bl.cycle) = bl.grid_length THEN Head(bl.cycle) ELSE Unset]

\* lines 209-216: one turn of the loop, in both builds
EvalLoopStep ==
    /\ ev_pc = "loop"
    /\ ev_t < builds[1].round_robin_period
    /\ \E d \in [Builds -> IF ev_cfg.perturb_evals THEN PerturbDraws(builds[1].perturb_size)
                                                   ELSE {<<0, 0, 0>>}] :
          builds' = [n \in Builds |->
                       LET e == ScheduleEntry(builds[n], ev_t, d[n])
                       IN  [builds[n] EXCEPT
                               !.entry = e,
                               !.cycle = IF Len(@) = builds[n].grid_length
                                         THEN Append(Tail(@), e.base)
                                         ELSE Append(@, e.base)]]
    /\ ev_t' = ev_t + 1
    /\ UNCHANGED <<mainVars, ev_cfg, ev_pc, ev_err, placement_initializer>>

\* lines 218-223: the name RoundRobinSampler is bound by none of the imports
\* of the module (lines 1-16), so the call raises NameError and
\* self.placement_initializer keeps its value
EvalInstall ==
    /\ ev_pc = "loop"
    /\ ev_t = builds[1].round_robin_period
    /\ ev_err' = "NameError"
    /\ ev_pc' = "failed"
    /\ UNCHANGED <<mainVars, ev_cfg, placement_initializer, builds, ev_t>>

NextEval ==
    \/ EvalBuildGrid
    \/ EvalLoopStep
    \/ EvalInstall

SpecEval == InitEval /\ [][NextEval]_vars

-----------------------------------------------------------------------------
(* Properties of the sampler *)

\* the sampler as set up, and the radius of its k-th object
Sampler == initializer[1]
RadiusOf(k) == Sampler.mujoco_objects[k].horizontal_radius
Returned == ret.status = "returned"
RaisedInfeasible == ret.status = "raised" /\ ret.error = "RandomizationError"

\* min and max of a configured range, the default standing for None
RangeMin(rng, default) == IF rng = Unset THEN Min2(default[1], default[2]) ELSE Min2(rng[1], rng[2])
RangeMax(rng, default) == IF rng = Unset THEN Max2(default[1], default[2]) ELSE Max2(rng[1], rng[2])
TableXRange == <<(-Sampler.table_size[1]) \div 2, Sampler.table_size[1] \div 2>>

\* C1: in every successful return of sample(), two distinct placed objects
\* whose vertical gap is below 0.021 are horizontally at least the sum of
\* their horizontal radii apart.
C1_NoHorizontalOverlap ==
    Returned =>
        \A i, j \in 1..Len(ret.pos_arr) :
            (i < j /\ Abs(ret.pos_arr[i][3] - ret.pos_arr[j][3]) < NearCoplanarThreshold)
                => HorizNormSq(VecSub(ret.pos_arr[i], ret.pos_arr[j]))
                       >= (RadiusOf(i) + RadiusOf(j)) * (RadiusOf(i) + RadiusOf(j))

\* some object of the sampler is wider than the configured x or y range
NarrowFor(k) ==
    \/ /\ Sampler.cfg.x_range # Unset
       /\ RangeMax(Sampler.cfg.x_range, Unset) - RangeMin(Sampler.cfg.x_range, Unset) < 2 * RadiusOf(k)
    \/ /\ Sampler.cfg.y_range # Unset
       /\ RangeMax(Sampler.cfg.y_range, Unset) - RangeMin(Sampler.cfg.y_range, Unset) < 2 * RadiusOf(k)

\* C2: with ensure_object_boundary_in_range set and a configured x or y range
\* narrower than twice an object's radius, sample() raises RandomizationError
\* and never returns a pose for that object (the formula states the second half:
\* no call returns a pose for such an object).
C2_NarrowRangeNeverReturns ==
    (pc = "ready" /\ initializer # Unset /\ Returned /\ Sampler.cfg.ensure_object_boundary_in_range)
        => \A k \in 1..Len(ret.pos_arr) : ~ NarrowFor(k)

\* C3: with ensure_object_boundary_in_range set, every x and y drawn for an
\* object of radius r lies in [range_min + r, range_max - r] of the active
\* range, and every z drawn lies in [z_min + 0.01, z_max - 0.01].
C3_DrawnWithinShrunkRange ==
    (cand # Unset /\ Sampler.cfg.ensure_object_boundary_in_range) =>
        /\ RangeMin(Sampler.cfg.x_range, TableXRange) + cand.radius <= cand.x
        /\ cand.x <= RangeMax(Sampler.cfg.x_range, TableXRange) - cand.radius
        /\ RangeMin(Sampler.cfg.y_range, TableXRange) + cand.radius <= cand.y
        /\ cand.y <= RangeMax(Sampler.cfg.y_range, TableXRange) - cand.radius
        /\ RangeMin(Sampler.cfg.z_range, <<0, DefaultZMax>>) + ZShrink <= cand.z
        /\ cand.z <= RangeMax(Sampler.cfg.z_range, <<0, DefaultZMax>>) - ZShrink

IsPrefix(a, b) == Len(a) <= Len(b) /\ \A i \in 1..Len(a) : a[i] = b[i]

\* C5: a successful sample() returns positions and orientations of exactly
\* the number of configured objects, entry i drawn for the i-th descriptor;
\* while a call runs, a pose already put down is never changed.
C5_AlignedOutputs ==
    [][ /\ (pc = "sampling" => (IsPrefix(pos_arr, pos_arr') /\ IsPrefix(quat_arr, quat_arr')))
        /\ (ret'.status = "returned" =>
              /\ Len(ret'.pos_arr) = Len(initializer'[1].mujoco_objects)
              /\ Len(ret'.quat_arr) = Len(initializer'[1].mujoco_objects)
              /\ \A i \in 1..Len(ret'.pos_arr) :
                    /\ placed_for'[i] = initializer'[1].mujoco_objects[i].id
                    /\ \E z \in Uniform(SampleZRange(initializer'[1], ZShrink)),
                          x \in Uniform(SampleXRange(initializer'[1], initializer'[1].mujoco_objects[i].horizontal_radius)),
                          y \in Uniform(SampleYRange(initializer'[1], initializer'[1].mujoco_objects[i].horizontal_radius)) :
                          ret'.pos_arr[i] = CandidatePos(initializer'[1],
                                               initializer'[1].mujoco_objects[i].bottom_offset, x, y, z)) ]_vars

\* a call returned poses for two objects of different radius and bottom offset
C5_Witness ==
    /\ Returned
    /\ Len(ret.pos_arr) = 2
    /\ RadiusOf(1) # RadiusOf(2)
    /\ ret.pos_arr[1] # ret.pos_arr[2]

-----------------------------------------------------------------------------
(* Properties of the scene *)

\* a merge is about to run, and the assets of the fragment it merges
MergePending == pc \in {"new", "arena"} \/ (pc = "merging" /\ merge_idx <= Len(mujoco_objects))
PendingAssets ==
    IF pc = "new" THEN inp.arena.assets
    ELSE IF pc = "arena" THEN inp.robot.assets
    ELSE mujoco_objects[merge_idx][2].assets

\* C9: the merge of a fragment (arena, robot, an object's assets) with an
\* asset identifier the scene already holds is rejected with
\* DuplicateAssetError and leaves world body, object list, object count,
\* max_horizontal_radius and asset table as they were before it.
C9_DuplicateRejectedSceneKept ==
    [][ /\ (MergePending /\ HasDuplicate(asset, PendingAssets))
            => (err' = "DuplicateAssetError" /\ sceneVars' = sceneVars)
        /\ (err = None /\ err' = "DuplicateAssetError") => sceneVars' = sceneVars ]_vars

\* the assets of the second object were rejected after the first object was merged
C9_Witness == err = "DuplicateAssetError" /\ pc = "failed" /\ Len(objects) = 1 /\ merge_idx = 2

\* C10: after place_objects, the pose on the i-th object node is the pose the
\* sampler produced for the descriptor of that object: node list, descriptor
\* list of the sampler and output arrays follow the order of the mapping.
C10_PosesAligned ==
    (pc = "ready" /\ Returned) =>
        /\ Len(objects) = Len(mujoco_objects)
        /\ \A i \in 1..Len(objects) :
              /\ objects[i].name = mujoco_objects[i][1]
              /\ Sampler.mujoco_objects[i] = mujoco_objects[i][2]
              /\ placed_for[i] = mujoco_objects[i][2].id
              /\ objects[i].pos = ArrayToString(ret.pos_arr[i])
              /\ objects[i].quat = ArrayToString(ret.quat_arr[i])

\* poses were written onto two nodes whose descriptors differ
C10_Witness ==
    /\ pc = "ready" /\ Returned
    /\ Len(objects) = 2
    /\ mujoco_objects[1][2].horizontal_radius # mujoco_objects[2][2].horizontal_radius
    /\ objects[1].pos # objects[2].pos
    /\ objects[1].pos = ArrayToString(ret.pos_arr[1])

-----------------------------------------------------------------------------
(* Properties of the evaluation schedule *)

Written(n) == builds # <<>> /\ builds[n].entry # Unset

ZeroCycle ==
    \/ ev_cfg.bounds.x_bounds[3] = 0
    \/ ev_cfg.bounds.y_bounds[3] = 0
    \/ ev_cfg.bounds.z_rot_bounds[3] = 0

GridCell(bounds) ==
    LET g == RangeToUniformGrid(bounds[1], bounds[2], bounds[3])
    IN  IF Len(g) >= 2 THEN g[2] - g[1] ELSE bounds[2] - bounds[1]

-----------------------------------------------------------------------------
(* Properties of the placement driver *)

\* merge_objects has run to its end
ObjectsMerged == pc \in {"ready", "sampling"}

\* the number of children of the world body that carry the name
NodesNamed(name) == Cardinality({i \in 1..Len(worldbody) : worldbody[i] = name})

\* a node with its pose attributes taken away
Structure(node) == [name |-> node.name, joints |-> node.joints]

\* C11: after merge_objects and after any number of place_objects calls the
\* scene holds exactly one node per object of the mapping, each with exactly
\* one free joint named after its object; place_objects changes only the pos
\* and quat of object nodes and never adds, removes or reorders nodes or joints.
C11_StructureKept ==
    [][ /\ ObjectsMerged' =>
              /\ Len(objects') = Len(mujoco_objects')
              /\ n_objects' = Len(mujoco_objects')
              /\ \A i \in 1..Len(objects') :
                    /\ objects'[i].name = mujoco_objects'[i][1]
                    /\ NodesNamed(objects[i].name)' = 1
                    /\ Len(objects'[i].joints) = 1
                    /\ objects'[i].joints[1].name = objects'[i].name
                    /\ objects'[i].joints[1].type = "free"
        /\ ObjectsMerged =>
              /\ worldbody' = worldbody
              /\ asset' = asset
              /\ Len(objects') = Len(objects)
              /\ \A i \in 1..Len(objects) : Structure(objects'[i]) = Structure(objects[i]) ]_vars

\* a second place_objects call has rewritten the pose of a node of a two-object scene
C11_Witness ==
    /\ pc = "ready" /\ calls = 2 /\ ret.status = "returned"
    /\ Len(objects) = 2
    /\ Len(objects[2].joints) = 1
    /\ objects[1].pos = ArrayToString(ret.pos_arr[1])

\* C12: each place_objects invocation calls sample() exactly once and checks
\* no constraint of its own: what it writes is what sample() returned; when
\* sample() raises RandomizationError the error reaches the caller of
\* place_objects and no pos or quat of an object node is changed by that invocation.
C12_SampleOnceRaiseKeepsPoses ==
    [][ /\ samples' = calls'
        /\ (pc = "sampling" /\ ret'.status # "returned") => objects' = objects
        /\ (pc = "sampling" /\ ret'.status = "raised") => (pc' = "ready" /\ objects' = objects)
        /\ (pc = "sampling" /\ ret'.status = "returned") =>
              \A i \in 1..Len(objects') :
                  /\ objects'[i].pos = ArrayToString(ret'.pos_arr[i])
                  /\ objects'[i].quat = ArrayToString(ret'.quat_arr[i]) ]_vars

\* a second call put its first object down elsewhere, then raised on the
\* second object: the node keeps the pose of the first call
C12_Witness ==
    /\ RaisedInfeasible /\ pc = "ready" /\ calls = 2
    /\ Len(pos_arr) = 1
    /\ objects[1].pos # ArrayToString(<<>>)
    /\ objects[1].pos # ArrayToString(pos_arr[1])

-----------------------------------------------------------------------------
(* Default ranges and the overlap test *)

\* the extent of the arena surface on an axis (1 for x, 2 for y), centred on
\* the surface origin, shrunk by the radius when the sampler shrinks
SurfaceRange(axis, radius) ==
    LET half == Sampler.table_size[axis] \div 2
    IN  IF Sampler.cfg.ensure_object_boundary_in_range
        THEN <<(-half) + radius, half - radius>>
        ELSE <<-half, half>>

\* C13: with x_range (y_range) left at None the sampler draws x from
\* [-size_x / 2, size_x / 2] and y from [-size_y / 2, size_y / 2], the extent
\* of the arena surface on that axis, also for a surface that is not square.
C13_DefaultRangeIsSurfaceExtent ==
    cand # Unset =>
        /\ Sampler.cfg.x_range = Unset => SampleXRange(Sampler, cand.radius) = SurfaceRange(1, cand.radius)
        /\ Sampler.cfg.y_range = Unset => SampleYRange(Sampler, cand.radius) = SurfaceRange(2, cand.radius)

\* a turn of the retry loop put the candidate down
Accepted ==
    /\ Len(placed_objects') = Len(placed_objects) + 1
    /\ placed_objects'[Len(placed_objects')] = <<cand'.pos, cand'.radius>>
    /\ pos_arr' = ListAppend(pos_arr, cand'.pos)

\* a turn of the retry loop threw the candidate away
Rejected ==
    /\ attempt' = attempt + 1
    /\ placed_objects' = placed_objects

\* the vertical gap from a position to the n-th placed object
VerticalGap(pos, n) == Abs(pos[3] - placed_objects[n][1][3])

\* C14: in sample(), a candidate whose vertical gap to every placed object is
\* at least 0.021 is accepted on that attempt whatever its horizontal distance
\* to them, and a candidate is rejected only if some placed object is both
\* within the sum of the radii and closer than 0.021 vertically.
C14_StackedCandidateAccepted ==
    [][ (pc = "sampling" /\ (Accepted \/ Rejected)) =>
          /\ (\A n \in 1..Len(placed_objects) : VerticalGap(cand'.pos, n) >= NearCoplanarThreshold)
                => Accepted
          /\ Rejected =>
                \E n \in 1..Len(placed_objects) :
                    LET sum == placed_objects[n][2] + cand'.radius
                    IN  /\ HorizNormSq(VecSub(cand'.pos, placed_objects[n][1])) <= sum * sum
                        /\ NormSq(VecSub(cand'.pos, placed_objects[n][1])) <= sum * sum
                        /\ VerticalGap(cand'.pos, n) < NearCoplanarThreshold ]_vars

\* a call returned two objects one above the other: the same x and y, and a
\* vertical gap of at least the threshold
C14_Witness ==
    /\ Returned
    /\ Len(ret.pos_arr) = 2
    /\ ret.pos_arr[1][1] = ret.pos_arr[2][1]
    /\ ret.pos_arr[1][2] = ret.pos_arr[2][2]
    /\ Abs(ret.pos_arr[1][3] - ret.pos_arr[2][3]) >= NearCoplanarThreshold

====
